---- MODULE Spec2Model ----
(***************************************************************************)
(* Hot-search ranked-term store of panhub (HotSearchSQLiteService).        *)
(*                                                                         *)
(* Two service instances are run side by side on the same inputs and the   *)
(* same clock: one whose constructor opened better-sqlite3 ("sqlite") and  *)
(* one whose constructor fell back to the Map-backed emulation ("memory"). *)
(* An action is one public method of the service, applied to both, or a    *)
(* part of one up to its await, or a change of the engine's condition.     *)
(***************************************************************************)
EXTENDS Integers, Sequences, FiniteSets, TLC

VARIABLES
    env,      \* process.env.HOT_SEARCH_PASSWORD (NoEnv when not set)
    db,       \* this.db of each instance: the table / the memoryStore
    lastId,   \* AUTOINCREMENT counter of table hot_searches (sqlite instance)
    now,      \* Date.now()
    call,     \* the method called last and its arguments
    ret,      \* what that call returned, per instance
    hist,     \* per term: accepted recordSearch calls since the last admin removal
    evicted,  \* per instance: terms dropped by the capacity step since then
    steps,    \* number of store-changing calls made since the loop
    loop,     \* the loop that fills the store first: calls done, calls in all
    initFailure, \* per instance: the step of initDatabase that threw ("none" if none)
    kind,     \* per instance: what this.db is, the engine's handle or the fallback object
    conn,     \* per instance: the condition of the engine's connection
    pending,  \* recordSearch calls suspended at their await, and per term the
              \* calls that went past the forbidden check or are still to reach it
    disk,     \* per instance: the file ./data/hot-searches.db
    singleton, \* the module variable singleton, and how often it was constructed
    cache     \* the entry 'hot-searches' of the cache of HotSearchService

vars == <<env, db, lastId, now, call, ret, hist, evicted, steps, loop,
          initFailure, kind, conn, pending, disk, singleton, cache>>

\* what the methods of HotSearchSQLiteService leave alone
extras == <<disk, singleton, cache>>

-----------------------------------------------------------------------------
(* Program constants *)

MAX_ENTRIES == 50

DefaultPassword == "admin123"

StatsLimit == 10

(* Bounds of the model *)

MaxSteps == 2

MaxRounds == 2

MaxPending == 2

NoEnv == "<unset>"

Backends == {"sqlite", "memory"}

-----------------------------------------------------------------------------
(* Terms are sequences of characters; a CJK character is written by its   *)
(* code point, "U+653F".                                                  *)

Digits == <<"0", "1", "2", "3", "4", "5", "6", "7", "8", "9">>

\* the numbered terms of the unit tests: a fixed prefix followed by the decimal digits of i
TestTerm(i) == <<"t", Digits[(i \div 10) + 1], Digits[(i % 10) + 1]>>

Upper == <<"A","B","C","D","E","F","G","H","I","J","K","L","M",
           "N","O","P","Q","R","S","T","U","V","W","X","Y","Z">>

Lower == <<"a","b","c","d","e","f","g","h","i","j","k","l","m",
           "n","o","p","q","r","s","t","u","v","w","x","y","z">>

\* the case folding of the /i flag, on the letters the patterns can match
Canonicalize(ch) ==
    IF \E i \in 1..Len(Upper) : Upper[i] = ch
    THEN Lower[CHOOSE i \in 1..Len(Upper) : Upper[i] = ch]
    ELSE ch

WhiteSpace == {" ", "\t", "\n", "\r"}

RECURSIVE TrimStart(_)
TrimStart(s) ==
    IF s # <<>> /\ Head(s) \in WhiteSpace THEN TrimStart(Tail(s)) ELSE s

RECURSIVE TrimEnd(_)
TrimEnd(s) ==
    IF s # <<>> /\ s[Len(s)] \in WhiteSpace
    THEN TrimEnd(SubSeq(s, 1, Len(s) - 1))
    ELSE s

\* String.prototype.trim
Trim(s) == TrimEnd(TrimStart(s))

\* the alternatives of the two regular expressions of isForbidden
ForbiddenPatterns ==
    { <<"U+653F", "U+6CBB">>, <<"U+66B4", "U+529B">>, <<"U+8272", "U+60C5">>, <<"U+8D4C", "U+535A">>, <<"U+6BD2", "U+54C1">>,
      <<"f", "u", "c", "k">>, <<"s", "h", "i", "t">>, <<"b", "i", "t", "c", "h">> }

\* pattern.test(term) for one alternative: a match at some offset, letters folded
MatchesAt(term, pat, off) ==
    /\ off + Len(pat) <= Len(term)
    /\ \A k \in 1..Len(pat) : Canonicalize(term[off + k]) = Canonicalize(pat[k])

\* the patterns without the /i flag
CaseSensitiveIsForbidden(term) ==
    \E pat \in ForbiddenPatterns :
        \E off \in 0..Len(term) :
            /\ off + Len(pat) <= Len(term)
            /\ \A k \in 1..Len(pat) : term[off + k] = pat[k]

isForbidden(term) ==
    \E pat \in ForbiddenPatterns :
        \E off \in 0..Len(term) : MatchesAt(term, pat, off)

\* the test without the trim()
EmptyTermNoTrim(term) == term = <<>>

\* !term || term.trim().length === 0
EmptyTerm(term) == term = <<>> \/ Len(Trim(term)) = 0

\* the two early returns of recordSearch
Rejected(term) == EmptyTerm(term) \/ isForbidden(term)

-----------------------------------------------------------------------------
(* The ranking order and the array / LIMIT primitives *)

Min(a, b) == IF a < b THEN a ELSE b

Max(a, b) == IF a > b THEN a ELSE b

\* A sort puts an element that the order ranks ahead of another first; elements
\* that neither ranks ahead keep their input order ("asc") or come out in the
\* reverse of it ("desc"). Every element is tagged with its position, which makes
\* the comparison total, so the order in which SortSeq is handed the elements
\* (last first, the cheap order for a store that grew in clock order) does not
\* change the result.
Tagged(s) == [p \in 1..Len(s) |-> <<Len(s) + 1 - p, s[Len(s) + 1 - p]>>]

Untagged(tagged) == [p \in 1..Len(tagged) |-> tagged[p][2]]

TieBefore(a, b, tie) == IF tie = "asc" THEN a[1] < b[1] ELSE a[1] > b[1]

\* Array.prototype.slice(0, end)
Slice0(arr, end) ==
    LET len == Len(arr)
        k   == IF end < 0 THEN Max(len + end, 0) ELSE Min(end, len)
    IN  SubSeq(arr, 1, k)

\* the number of rows LIMIT lets through: a negative LIMIT is no limit
SqlLimit(n, limit) == IF limit < 0 THEN n ELSE Min(limit, n)

-----------------------------------------------------------------------------
(* The SQL statements of the service, by the text the fallback's prepare()  *)
(* probes with includes() and ===.                                         *)

UpsertSql == [text |-> "INSERT INTO hot_searches ... ON CONFLICT(term) DO UPDATE",
              has  |-> {"INSERT INTO"}]

SelectSql == [text |-> "SELECT ... FROM hot_searches ORDER BY ... LIMIT ?",
              has  |-> {"SELECT", "FROM hot_searches"}]

StatsTopSql == [text |-> "SELECT ... FROM hot_searches ORDER BY ... LIMIT 10",
                has  |-> {"SELECT", "FROM hot_searches"}]

CountSql == [text |-> "SELECT COUNT(*) as total FROM hot_searches",
             has  |-> {"SELECT COUNT(*)", "SELECT", "FROM hot_searches"}]

CleanupSql == [text |-> "DELETE FROM hot_searches WHERE id NOT IN (SELECT id FROM hot_searches ORDER BY ... LIMIT ?)",
               has  |-> {"DELETE FROM hot_searches", "SELECT", "FROM hot_searches"}]

DeleteOneSql == [text |-> "DELETE FROM hot_searches WHERE term = ?",
                 has  |-> {"DELETE FROM hot_searches", "FROM hot_searches", "WHERE term = ?"}]

ClearSql == [text |-> "DELETE FROM hot_searches",
             has  |-> {"DELETE FROM hot_searches", "FROM hot_searches"}]

-----------------------------------------------------------------------------
(* The in-memory fallback: memoryStore is a Map, kept here as the sequence  *)
(* of its values in insertion order (the order Map iteration yields).       *)

\* prepare(sql): the first branch whose test the text passes
prepare(sql) ==
    IF "INSERT INTO" \in sql.has THEN "upsert"
    ELSE IF "SELECT COUNT(*)" \in sql.has /\ "FROM hot_searches" \in sql.has
         THEN "count"
    ELSE IF "SELECT" \in sql.has /\ "FROM hot_searches" \in sql.has THEN "select"
    ELSE IF "DELETE FROM hot_searches" \in sql.has /\ "WHERE term = ?" \in sql.has
         THEN "deleteOne"
    ELSE IF sql.text = "DELETE FROM hot_searches" THEN "deleteAll"
    ELSE IF "DELETE FROM hot_searches" \in sql.has THEN "trim"
    ELSE "none"

\* the methods of the object each branch returns; calling another one throws
Methods(stmt) ==
    CASE stmt = "upsert"    -> {"run"}
      [] stmt = "count"     -> {"get"}
      [] stmt = "select"    -> {"all"}
      [] stmt = "deleteOne" -> {"run"}
      [] stmt = "deleteAll" -> {"run"}
      [] stmt = "trim"      -> {"run"}
      [] OTHER              -> {"run", "all", "get"}

MemTerms(store) == {store[i].term : i \in 1..Len(store)}

MemIndex(store, term) == CHOOSE i \in 1..Len(store) : store[i].term = term

\* an INSERT branch that overwrites the record it finds with a new one
MemUpsertReplace(store, term, lastSearched, createdAt, t) ==
    IF term \in MemTerms(store)
    THEN [store EXCEPT ![MemIndex(store, term)] =
            [term |-> term, score |-> 1, lastSearched |-> t, createdAt |-> t]]
    ELSE Append(store, [term |-> term, score |-> 1, lastSearched |-> t, createdAt |-> t])

\* run(term, lastSearched, createdAt, now) of the INSERT branch
MemUpsert(store, term, lastSearched, createdAt, t) ==
    IF term \in MemTerms(store)
    THEN [store EXCEPT ![MemIndex(store, term)] =
            [@ EXCEPT !.score = @ + 1, !.lastSearched = t]]
    ELSE Append(store, [term |-> term, score |-> 1, lastSearched |-> t, createdAt |-> t])

\* the comparator of both sort() calls
MemCompare(a, b) ==
    IF b.score # a.score THEN b.score - a.score ELSE b.lastSearched - a.lastSearched

MemBefore(a, b) == MemCompare(a, b) < 0

\* the values with the sort() left out
MemUnsorted(store) == store

\* Array.from(memoryStore.values()).sort(...): Array.prototype.sort is stable
MemSorted(store) ==
    Untagged(SortSeq(Tagged(store),
                     LAMBDA a, b :
                        \/ MemBefore(a[2], b[2])
                        \/ ~MemBefore(b[2], a[2]) /\ TieBefore(a, b, "asc")))

\* all(limit) of the SELECT branch; args are the arguments the caller passes,
\* and a missing limit is undefined, which slice() reads as "to the end"
MemAll(store, args) ==
    LET sorted == MemSorted(store)
    IN  IF args = <<>> THEN sorted ELSE Slice0(sorted, args[1])

\* run(term) of the DELETE-one branch
MemDeleteOne(store, term) ==
    [store   |-> SelectSeq(store, LAMBDA r : r.term # term),
     changes |-> IF term \in MemTerms(store) THEN 1 ELSE 0]

\* a DELETE-all branch that forgets the clear()
MemDeleteNone(store) == [store |-> store, changes |-> 0]

\* run() of the DELETE-all branch
MemDeleteAll(store) == [store |-> <<>>, changes |-> Len(store)]

\* run(limit) of the generic DELETE branch
MemTrim(store, limit) ==
    LET entries == MemSorted(store)
        dropped == {entries[i].term : i \in (limit + 1)..Len(entries)}
    IN  SelectSeq(store, LAMBDA r : r.term \notin dropped)

-----------------------------------------------------------------------------
(* The SQLite table hot_searches, kept as the sequence of its rows in rowid *)
(* order. AUTOINCREMENT hands out ids that grow and are never reused.       *)

SqlTerms(rows) == {rows[i].term : i \in 1..Len(rows)}

SqlIndex(rows, term) == CHOOSE i \in 1..Len(rows) : rows[i].term = term

\* the upsert with an UPDATE that has lost its restriction to the one row
SqlUpsertRefreshesAll(rows, id, p1, p2, p3, p4) ==
    IF p1 \in SqlTerms(rows)
    THEN [rows |-> [i \in 1..Len(rows) |->
                      IF rows[i].term = p1
                      THEN [rows[i] EXCEPT !.score = @ + 1, !.last_searched = p4]
                      ELSE [rows[i] EXCEPT !.last_searched = p4]],
          id   |-> id]
    ELSE [rows |-> Append(rows, [id |-> id + 1, term |-> p1, score |-> 1,
                                 last_searched |-> p2, created_at |-> p3]),
          id   |-> id + 1]

\* the INSERT with no conflict clause on a table with no UNIQUE constraint
SqlInsertOnly(rows, id, p1, p2, p3, p4) ==
    [rows |-> Append(rows, [id |-> id + 1, term |-> p1, score |-> 1,
                            last_searched |-> p2, created_at |-> p3]),
     id   |-> id + 1]

\* the upsert with a conflict clause that overwrites the score
SqlUpsertNoIncrement(rows, id, p1, p2, p3, p4) ==
    IF p1 \in SqlTerms(rows)
    THEN [rows |-> [rows EXCEPT ![SqlIndex(rows, p1)] =
                      [@ EXCEPT !.score = 1, !.last_searched = p4]],
          id   |-> id]
    ELSE [rows |-> Append(rows, [id |-> id + 1, term |-> p1, score |-> 1,
                                 last_searched |-> p2, created_at |-> p3]),
          id   |-> id + 1]

\* INSERT ... VALUES (?1, 1, ?2, ?3) ON CONFLICT(term) DO UPDATE SET
\*   score = score + 1, last_searched = ?4
SqlUpsert(rows, id, p1, p2, p3, p4) ==
    IF p1 \in SqlTerms(rows)
    THEN [rows |-> [rows EXCEPT ![SqlIndex(rows, p1)] =
                      [@ EXCEPT !.score = @ + 1, !.last_searched = p4]],
          id   |-> id]
    ELSE [rows |-> Append(rows, [id |-> id + 1, term |-> p1, score |-> 1,
                                 last_searched |-> p2, created_at |-> p3]),
          id   |-> id + 1]

\* ORDER BY score DESC, last_searched DESC
SqlBefore(a, b) ==
    \/ a.score > b.score
    \/ a.score = b.score /\ a.last_searched > b.last_searched

\* SQL leaves the order of rows that tie on every ORDER BY key to the engine:
\* the rows come out in scan order or in the reverse of it
TieOrders == {"asc", "desc"}

SqlOrderBy(rows, tie) ==
    Untagged(SortSeq(Tagged(rows),
                     LAMBDA a, b :
                        \/ SqlBefore(a[2], b[2])
                        \/ ~SqlBefore(b[2], a[2]) /\ TieBefore(a, b, tie)))

\* SELECT term, score, last_searched as lastSearched, created_at as createdAt
\*   FROM hot_searches ORDER BY score DESC, last_searched DESC LIMIT ?
SqlSelect(rows, limit, tie) ==
    LET ordered == SqlOrderBy(rows, tie)
    IN  [p \in 1..SqlLimit(Len(rows), limit) |->
            [term |-> ordered[p].term, score |-> ordered[p].score,
             lastSearched |-> ordered[p].last_searched,
             createdAt |-> ordered[p].created_at]]

\* a DELETE that keeps the rows inserted first
SqlCleanupKeepsOldest(rows, limit, tie) ==
    SubSeq(rows, 1, SqlLimit(Len(rows), limit))

\* DELETE FROM hot_searches WHERE id NOT IN
\*   (SELECT id FROM hot_searches ORDER BY score DESC, last_searched DESC LIMIT ?)
SqlCleanup(rows, limit, tie) ==
    LET ordered == SqlOrderBy(rows, tie)
        keep    == {ordered[p].id : p \in 1..SqlLimit(Len(rows), limit)}
    IN  SelectSeq(rows, LAMBDA r : r.id \in keep)

\* a DELETE that reports one changed row whether or not a row matched
SqlDeleteOneReportsChange(rows, term) ==
    [store   |-> SelectSeq(rows, LAMBDA r : r.term # term),
     changes |-> 1]

\* DELETE FROM hot_searches WHERE term = ?
SqlDeleteOne(rows, term) ==
    [store   |-> SelectSeq(rows, LAMBDA r : r.term # term),
     changes |-> IF term \in SqlTerms(rows) THEN 1 ELSE 0]

\* DELETE FROM hot_searches
SqlDeleteAll(rows) == [store |-> <<>>, changes |-> Len(rows)]

\* SELECT COUNT(*) as total FROM hot_searches
SqlCount(rows) == Len(rows)

-----------------------------------------------------------------------------
(* Construction and the connection *)

\* the steps of the try block of initDatabase, in order
InitSteps == <<"require", "mkdirSync", "open", "exec">>

InitFailures == {"none"} \cup {InitSteps[i] : i \in 1..Len(InitSteps)}

\* a constructor that never falls back
initDatabaseNoFallback(failure) == "sqlite"

\* initDatabase: this.db is the better-sqlite3 handle when no step throws;
\* the catch block replaces it by the fallback object whatever step threw
initDatabase(failure) == IF failure = "none" THEN "sqlite" ELSE "memory"

\* the file is not there
NoFile == [exists |-> FALSE, bytes |-> 0]

\* the size of the file once the CREATE TABLE has run: four pages of 4096
\* bytes (schema, table, its UNIQUE index, sqlite_sequence); the 50 records
\* the table can hold fit in them
SchemaBytes == 16384

\* The file after initDatabase, given the file an earlier run left: require and
\* mkdirSync do not touch it, new Database(path) creates it empty when it is
\* not there, the CREATE TABLE IF NOT EXISTS writes the schema into it.
diskAfterInit(failure, earlier) ==
    IF failure \in {"require", "mkdirSync", "open"}
    THEN earlier
    ELSE IF failure = "exec"
    THEN [exists |-> TRUE, bytes |-> earlier.bytes]
    ELSE [exists |-> TRUE, bytes |-> Max(earlier.bytes, SchemaBytes)]

\* an engine whose statements never throw
NeverThrows(k, c) == FALSE

\* prepare() of better-sqlite3 throws on a closed connection and when the engine
\* reports an error; the fallback object has no close() and nothing in it fails
Throws(k, c) == k = "sqlite" /\ c # "open"

-----------------------------------------------------------------------------
(* The service methods, per instance *)

\* stmt.run(...args) on the fallback's statement objects
MemRun(stmt, store, args) ==
    IF "run" \notin Methods(stmt)
    THEN [threw |-> TRUE, store |-> store, changes |-> 0]
    ELSE CASE stmt = "upsert" ->
                [threw |-> FALSE, changes |-> 0,
                 store |-> MemUpsert(store, args[1], args[2], args[3], args[4])]
           [] stmt = "deleteOne" ->
                [threw |-> FALSE, changes |-> MemDeleteOne(store, args[1]).changes,
                 store |-> MemDeleteOne(store, args[1]).store]
           [] stmt = "deleteAll" ->
                [threw |-> FALSE, changes |-> MemDeleteAll(store).changes,
                 store |-> MemDeleteAll(store).store]
           [] stmt = "trim" ->
                \* with no argument limit is undefined: length > undefined is false
                IF args = <<>>
                THEN [threw |-> FALSE, changes |-> 0, store |-> store]
                ELSE [threw |-> FALSE, changes |-> Max(0, Len(store) - args[1]),
                      store |-> MemTrim(store, args[1])]
           [] OTHER ->
                [threw |-> FALSE, changes |-> 0, store |-> store]

\* cleanupOldEntries: an exception of prepare() or run() is caught and dropped
cleanupOldEntries(b, store, tie) ==
    IF b = "sqlite"
    THEN SqlCleanup(store, MAX_ENTRIES, tie)
    ELSE MemRun(prepare(CleanupSql), store, <<MAX_ENTRIES>>).store

\* the try block of recordSearch: the upsert, then the cleanup.
\* upserted is the store between the two.
recordInto(b, store, id, term, t, tie) ==
    IF b = "sqlite"
    THEN LET u == SqlUpsert(store, id, term, t, t, t)
         IN  [store |-> cleanupOldEntries(b, u.rows, tie), id |-> u.id,
              upserted |-> u.rows]
    ELSE LET r == MemRun(prepare(UpsertSql), store, <<term, t, t, t>>)
         IN  IF r.threw
             THEN [store |-> store, id |-> id, upserted |-> store]
             ELSE [store |-> cleanupOldEntries(b, r.store, tie), id |-> id,
                   upserted |-> r.store]

\* a recordSearch whose upsert is undone when the cleanup throws
recordIntoRolledBack(b, store, id, term, t) ==
    [store |-> store, id |-> id, upserted |-> store]

\* the try block of recordSearch when the cleanup statement throws: the upsert
\* has run, the catch block of cleanupOldEntries logs the exception and
\* recordSearch goes on to return
recordIntoCleanupThrows(b, store, id, term, t) ==
    IF b = "sqlite"
    THEN LET u == SqlUpsert(store, id, term, t, t, t)
         IN  [store |-> u.rows, id |-> u.id, upserted |-> u.rows]
    ELSE LET r == MemRun(prepare(UpsertSql), store, <<term, t, t, t>>)
         IN  [store |-> r.store, id |-> id, upserted |-> r.store]

\* an all() that takes the rows it returns out of the Map
MemAllTakesRows(store, args) ==
    IF args = <<>> THEN <<>> ELSE SubSeq(store, Min(Max(args[1], 0), Len(store)) + 1, Len(store))

\* what all(limit) leaves in the Map: Array.from copies the values, and sort,
\* slice and map work on the copy
MemAfterAll(store, args) == store

\* the store after the queries of getHotSearches (args is the limit) or of
\* getStats (no argument): a SELECT writes no row
storeAfterRead(b, store, args) ==
    IF b = "sqlite" THEN store ELSE MemAfterAll(store, args)

\* getHotSearches without the Math.min
selectUnclamped(b, store, limit, tie) ==
    IF b = "sqlite"
    THEN SqlSelect(store, limit, tie)
    ELSE MemAll(store, <<limit>>)

\* the rows getHotSearches returns
selectTop(b, store, limit, tie) ==
    IF b = "sqlite"
    THEN SqlSelect(store, Min(limit, MAX_ENTRIES), tie)
    ELSE IF "all" \in Methods(prepare(SelectSql))
         THEN MemAll(store, <<Min(limit, MAX_ENTRIES)>>)
         ELSE <<>>

\* getStats: COUNT(*), then the LIMIT 10 query run with no argument
statsOf(b, store, tie) ==
    IF b = "sqlite"
    THEN [total |-> SqlCount(store), topTerms |-> SqlSelect(store, StatsLimit, tie)]
    ELSE IF "get" \in Methods(prepare(CountSql)) /\ "all" \in Methods(prepare(StatsTopSql))
         THEN [total |-> Len(store), topTerms |-> MemAll(store, <<>>)]
         ELSE [total |-> 0, topTerms |-> <<>>]

\* getDatabaseSize: Math.round((stats.size / (1024 * 1024)) * 100) / 100 of the
\* file at DB_PATH if existsSync finds one, 0 otherwise; the result is given in
\* hundredths of a megabyte. Math.round rounds halves up.
getDatabaseSize(file) ==
    IF file.exists
    THEN (2 * 100 * file.bytes + 1024 * 1024) \div (2 * 1024 * 1024)
    ELSE 0

\* stmt.run() of clearHotSearches
clearStore(b, store) ==
    IF b = "sqlite"
    THEN [threw |-> FALSE, store |-> SqlDeleteAll(store).store,
          changes |-> SqlDeleteAll(store).changes]
    ELSE MemRun(prepare(ClearSql), store, <<>>)

\* a delete that empties the table whatever the term
deleteEverything(b, store, term) ==
    [threw |-> FALSE, store |-> <<>>, changes |-> Len(store)]

\* stmt.run(term) of deleteHotSearch
deleteFrom(b, store, term) ==
    IF b = "sqlite"
    THEN [threw |-> FALSE, store |-> SqlDeleteOne(store, term).store,
          changes |-> SqlDeleteOne(store, term).changes]
    ELSE MemRun(prepare(DeleteOneSql), store, <<term>>)

\* the check with the comparison left out
AcceptsAnyPassword(password, configured) == TRUE

\* a check that lets the default password in whatever is configured
AcceptsDefaultToo(password, configured) ==
    \/ password = DefaultPassword
    \/ configured \notin {NoEnv, ""} /\ password = configured

\* password !== (process.env.HOT_SEARCH_PASSWORD || 'admin123') is false
PasswordOk(password, configured) ==
    password = (IF configured = NoEnv \/ configured = "" THEN DefaultPassword
                ELSE configured)

Terms(store) == {store[i].term : i \in 1..Len(store)}

\* the stored records as getHotSearches would show them, in no order
Records(b, store) ==
    IF b = "sqlite"
    THEN {[term |-> store[i].term, score |-> store[i].score,
           lastSearched |-> store[i].last_searched,
           createdAt |-> store[i].created_at] : i \in 1..Len(store)}
    ELSE {store[i] : i \in 1..Len(store)}

-----------------------------------------------------------------------------
(* Inputs *)

OldTerm == TestTerm(1)

FreshTerm == TestTerm(MAX_ENTRIES + 1)

PaddedTerm == <<" ">> \o OldTerm \o <<" ">>

BlankTerms == { <<>>, <<" ", "\t", " ">> }

ForbiddenTerms ==
    { <<"S", "h", "I", "t">>,
      <<"x", "U+6BD2", "U+54C1">>,
      OldTerm \o <<"F", "u", "C", "k">> }

InputTerms == BlankTerms \cup ForbiddenTerms \cup {OldTerm, FreshTerm, PaddedTerm}

DeleteTerms == {OldTerm, FreshTerm}

Limits == {-1, 0, 2, MAX_ENTRIES, MAX_ENTRIES + 10}

EnvPasswords == {NoEnv, "", "hunter2"}

Passwords == {DefaultPassword, "hunter2", ""}

\* the clock moves on by 0 or 1 ms between two readings
ClockSteps == {0, 1}

\* the sizes of the loop that fills the store first; the store is filled to
\* capacity under the default password only
PreloadSizes(e) == IF e = NoEnv THEN {0, 2, MAX_ENTRIES} ELSE {2}

-----------------------------------------------------------------------------
(* State *)

NoHist == [n |-> 0, first |-> 0, last |-> 0]

Void == [success |-> FALSE, message |-> "", rows |-> <<>>, total |-> 0, size |-> 0]

Call(op, term, limit, password) ==
    [op |-> op, term |-> term, limit |-> limit, password |-> password]

\* an accepted recordSearch(term) at clock reading t, on both instances
recordAll(st, term, t, tie) ==
    LET \* the catch block of recordSearch: the store is left as it was
        caught(b) == [store |-> st.db[b], id |-> st.lastId, upserted |-> st.db[b]]
        rs == IF Throws(kind["sqlite"], conn["sqlite"]) THEN caught("sqlite")
              ELSE recordInto(kind["sqlite"], st.db["sqlite"], st.lastId, term, t, tie)
        rm == IF Throws(kind["memory"], conn["memory"]) THEN caught("memory")
              ELSE recordInto(kind["memory"], st.db["memory"], st.lastId, term, t, tie)
        r  == [b \in Backends |-> IF b = "sqlite" THEN rs ELSE rm]
    IN  [db      |-> [b \in Backends |-> r[b].store],
         lastId  |-> r["sqlite"].id,
         hist    |-> IF term \in InputTerms
                     THEN [st.hist EXCEPT ![term] =
                             [n     |-> @.n + 1,
                              first |-> IF @.n = 0 THEN t ELSE @.first,
                              last  |-> t]]
                     ELSE st.hist,
         evicted |-> [b \in Backends |->
                        st.evicted[b] \cup
                        (InputTerms \cap (Terms(r[b].upserted) \ Terms(r[b].store)))]]

\* a freshly constructed pair of instances
Fresh ==
    [db      |-> [b \in Backends |-> <<>>],
     lastId  |-> 0,
     hist    |-> [t \in InputTerms |-> NoHist],
     evicted |-> [b \in Backends |-> {}]]

\* let singleton: HotSearchSQLiteService | undefined, before the first call of
\* getOrCreateHotSearchSQLiteService; built counts the constructor calls it made
NotConstructed == [set |-> FALSE, built |-> 0]

\* cache.get(CACHE_KEY) misses
NoEntry == [hit |-> FALSE, value |-> <<>>]

\* no recordSearch call is suspended, none was begun
NoPending == [queue |-> <<>>, begun |-> [t \in InputTerms |-> 0]]

\* The two machines before any instance is constructed: on the machine of
\* instance "sqlite" no step of initDatabase will fail, on that of instance
\* "memory" step failure will; the loop of n terms and so many rounds is to run.
\* StartOn is the state after new HotSearchSQLiteService() on both.
Unbuilt(e, n, rounds, failure) ==
    /\ env = e
    /\ db = Fresh.db
    /\ lastId = Fresh.lastId
    /\ hist = Fresh.hist
    /\ evicted = Fresh.evicted
    /\ now = 0
    /\ call = Call("new", <<>>, 0, "")
    /\ ret = [b \in Backends |-> Void]
    /\ steps = 0
    /\ loop = [size |-> n, done |-> 0, total |-> n * rounds]
    /\ initFailure = [b \in Backends |-> IF b = "sqlite" THEN "none" ELSE failure]
    /\ pending = NoPending
    /\ cache = NoEntry

StartOn(e, n, rounds, failure, earlier) ==
    /\ Unbuilt(e, n, rounds, failure)
    /\ kind = [b \in Backends |->
                 initDatabase(IF b = "sqlite" THEN "none" ELSE failure)]
    /\ conn = [b \in Backends |-> "open"]
    /\ disk = [b \in Backends |->
                 diskAfterInit(IF b = "sqlite" THEN "none" ELSE failure, earlier)]
    /\ singleton = NotConstructed

\* the same on machines where no earlier run left a file
Start(e, n, rounds, failure) == StartOn(e, n, rounds, failure, NoFile)

\* better-sqlite3 is not installed on the machine of instance "memory"
Init ==
    \E e \in EnvPasswords, rounds \in 1..MaxRounds : \E n \in PreloadSizes(e) :
        Start(e, n, rounds, "require")

-----------------------------------------------------------------------------
(* Actions: one per public method *)

\* One pass of the loop that fills the store before anything else is called:
\*   for (round ...) for (i = 1; i <= size; i++) await recordSearch(TestTerm(i))
\* each call reading the clock 1 ms after the one before.
Populate ==
    /\ UNCHANGED extras
    /\ loop.done < loop.total
    /\ LET term == TestTerm((loop.done % loop.size) + 1)
           st   == recordAll([db |-> db, lastId |-> lastId, hist |-> hist,
                              evicted |-> evicted], term, now + 1, "asc")
       IN  /\ call' = Call("recordSearch", term, 0, "")
           /\ now' = now + 1
           /\ db' = st.db
           /\ lastId' = st.lastId
           /\ hist' = st.hist
           /\ evicted' = st.evicted
    /\ ret' = [b \in Backends |-> Void]
    /\ loop' = [loop EXCEPT !.done = @ + 1]
    /\ UNCHANGED <<env, steps, initFailure, kind, conn, pending>>

RecordSearchAt(term, elapsed) ==
    /\ UNCHANGED extras
    /\ loop.done = loop.total
    /\ Rejected(term) \/ steps < MaxSteps
    /\ call' = Call("recordSearch", term, 0, "")
    /\ ret' = [b \in Backends |-> Void]
    /\ UNCHANGED <<env, loop, initFailure, kind, conn, pending>>
    /\ IF Rejected(term)
       THEN UNCHANGED <<db, lastId, now, hist, evicted, steps>>
       ELSE \E d \in elapsed, tie \in TieOrders :
              LET st == recordAll([db |-> db, lastId |-> lastId, hist |-> hist,
                                   evicted |-> evicted], term, now + d, tie)
              IN  /\ now' = now + d
                  /\ db' = st.db
                  /\ lastId' = st.lastId
                  /\ hist' = st.hist
                  /\ evicted' = st.evicted
                  /\ steps' = steps + 1

\* recordSearch(term), accepted, with the engine reporting an error (SQLITE_BUSY,
\* SQLITE_FULL) to the DELETE of cleanupOldEntries after the upsert succeeded;
\* on the fallback that statement throws in every call
RecordSearchCleanupThrows(term) ==
    /\ UNCHANGED extras
    /\ loop.done = loop.total
    /\ ~Rejected(term)
    /\ steps < MaxSteps
    /\ \A b \in Backends : ~Throws(kind[b], conn[b])
    /\ call' = Call("recordSearch, cleanup throws", term, 0, "")
    /\ ret' = [b \in Backends |-> Void]
    /\ UNCHANGED <<env, loop, initFailure, kind, conn, pending, evicted>>
    /\ \E d \in ClockSteps :
          LET r == [b \in Backends |->
                      recordIntoCleanupThrows(kind[b], db[b], lastId, term, now + d)]
          IN  /\ now' = now + d
              /\ db' = [b \in Backends |-> r[b].store]
              /\ lastId' = r["sqlite"].id
              /\ hist' = IF term \in InputTerms
                         THEN [hist EXCEPT ![term] =
                                 [n     |-> @.n + 1,
                                  first |-> IF @.n = 0 THEN now + d ELSE @.first,
                                  last  |-> now + d]]
                         ELSE hist
              /\ steps' = steps + 1

RecordSearch(term) == RecordSearchAt(term, ClockSteps)

GetHotSearches(limit) ==
    /\ UNCHANGED extras
    /\ loop.done = loop.total
    /\ call' = Call("getHotSearches", <<>>, limit, "")
    /\ \E tie \in TieOrders :
          ret' = [b \in Backends |->
                    IF Throws(kind[b], conn[b])
                    THEN Void
                    ELSE [Void EXCEPT !.rows = selectTop(kind[b], db[b], limit, tie)]]
    /\ db' = [b \in Backends |->
                IF Throws(kind[b], conn[b])
                THEN db[b]
                ELSE storeAfterRead(kind[b], db[b], <<Min(limit, MAX_ENTRIES)>>)]
    /\ UNCHANGED <<env, lastId, now, hist, evicted, steps, loop,
                   initFailure, kind, conn, pending>>

GetStats ==
    /\ UNCHANGED extras
    /\ loop.done = loop.total
    /\ call' = Call("getStats", <<>>, 0, "")
    /\ \E tie \in TieOrders :
          ret' = [b \in Backends |->
                    IF Throws(kind[b], conn[b])
                    THEN Void
                    ELSE LET stats == statsOf(kind[b], db[b], tie)
                         IN  [Void EXCEPT !.total = stats.total,
                                          !.rows = stats.topTerms]]
    /\ db' = [b \in Backends |->
                IF Throws(kind[b], conn[b]) THEN db[b]
                ELSE storeAfterRead(kind[b], db[b], <<>>)]
    /\ UNCHANGED <<env, lastId, now, hist, evicted, steps, loop,
                   initFailure, kind, conn, pending>>

ClearHotSearches(password) ==
    /\ UNCHANGED extras
    /\ loop.done = loop.total
    /\ call' = Call("clearHotSearches", <<>>, 0, password)
    /\ UNCHANGED <<env, lastId, now, loop, initFailure, kind, conn, pending>>
    /\ IF ~PasswordOk(password, env)
       THEN /\ ret' = [b \in Backends |->
                         [Void EXCEPT !.message = "wrong password"]]
            /\ UNCHANGED <<db, hist, evicted, steps>>
       ELSE /\ steps < MaxSteps
            /\ steps' = steps + 1
            /\ db' = [b \in Backends |->
                        IF Throws(kind[b], conn[b]) THEN db[b]
                        ELSE clearStore(kind[b], db[b]).store]
            /\ ret' = [b \in Backends |->
                         IF Throws(kind[b], conn[b]) \/ clearStore(kind[b], db[b]).threw
                         THEN [Void EXCEPT !.message = "clear failed"]
                         ELSE [Void EXCEPT !.success = TRUE, !.message = "cleared"]]
            /\ hist' = [t \in InputTerms |-> NoHist]
            /\ evicted' = [b \in Backends |-> {}]

DeleteHotSearch(term, password) ==
    /\ UNCHANGED extras
    /\ loop.done = loop.total
    /\ call' = Call("deleteHotSearch", term, 0, password)
    /\ UNCHANGED <<env, lastId, now, loop, initFailure, kind, conn, pending>>
    /\ IF ~PasswordOk(password, env)
       THEN /\ ret' = [b \in Backends |->
                         [Void EXCEPT !.message = "wrong password"]]
            /\ UNCHANGED <<db, hist, evicted, steps>>
       ELSE /\ steps < MaxSteps
            /\ steps' = steps + 1
            /\ db' = [b \in Backends |->
                        IF Throws(kind[b], conn[b]) THEN db[b]
                        ELSE deleteFrom(kind[b], db[b], term).store]
            /\ ret' = [b \in Backends |->
                         LET r == IF Throws(kind[b], conn[b])
                                  THEN [threw |-> TRUE, store |-> db[b], changes |-> 0]
                                  ELSE deleteFrom(kind[b], db[b], term)
                         IN  IF r.threw
                             THEN [Void EXCEPT !.message = "delete failed"]
                             ELSE IF r.changes > 0
                             THEN [Void EXCEPT !.success = TRUE, !.message = "deleted"]
                             ELSE [Void EXCEPT !.message = "term not found"]]
            /\ hist' = IF term \in InputTerms
                       THEN [hist EXCEPT ![term] = NoHist] ELSE hist
            /\ evicted' = [b \in Backends |-> evicted[b] \ {term}]

GetDatabaseSize ==
    /\ loop.done = loop.total
    /\ call' = Call("getDatabaseSize", <<>>, 0, "")
    /\ ret' = [b \in Backends |-> [Void EXCEPT !.size = getDatabaseSize(disk[b])]]
    /\ UNCHANGED <<env, db, lastId, now, hist, evicted, steps, loop,
                   initFailure, kind, conn, pending, disk, singleton, cache>>

\* a test that never finds the instance
alwaysConstructs(s) == TRUE

\* if (!singleton)
needsConstruction(s) == ~s.set

\* getOrCreateHotSearchSQLiteService(): the constructor runs when the module
\* variable is not set. It opens the file, whose rows an SQLite instance then
\* sees, or makes a new empty Map.
GetOrCreate ==
    /\ loop.done = loop.total
    /\ call' = Call("getOrCreate", <<>>, 0, "")
    /\ ret' = [b \in Backends |-> Void]
    /\ UNCHANGED <<env, lastId, now, hist, evicted, steps, loop, initFailure,
                   pending, cache>>
    /\ IF needsConstruction(singleton)
       THEN /\ singleton' = [set |-> TRUE, built |-> singleton.built + 1]
            /\ kind' = [b \in Backends |-> initDatabase(initFailure[b])]
            /\ conn' = [b \in Backends |-> "open"]
            /\ disk' = [b \in Backends |-> diskAfterInit(initFailure[b], disk[b])]
            /\ db' = [b \in Backends |->
                        IF initDatabase(initFailure[b]) = "sqlite" THEN db[b] ELSE <<>>]
       ELSE UNCHANGED <<singleton, kind, conn, disk, db>>

-----------------------------------------------------------------------------
(* HotSearchService, the variant that keeps the list in a MemoryCache entry *)

\* cache.get(CACHE_KEY) while the entry has not expired: what was set last
cacheGet(c) == c

\* cache.set(CACHE_KEY, value, CACHE_TTL)
cacheSet(c, value) == [hit |-> TRUE, value |-> value]

\* searches.sort((a, b) => b.score - a.score): Array.prototype.sort is stable
ScoreSorted(searches) ==
    Untagged(SortSeq(Tagged(searches),
                     LAMBDA a, b :
                        \/ a[2].score > b[2].score
                        \/ a[2].score = b[2].score /\ TieBefore(a, b, "asc")))

\* recordSearch from the find to the slice: the list it hands to cache.set
listAfterRecord(searches, term) ==
    LET found  == \E i \in 1..Len(searches) : searches[i].term = term
        edited == IF found
                  THEN [i \in 1..Len(searches) |->
                          IF searches[i].term = term
                          THEN [searches[i] EXCEPT !.score = @ + 1]
                          ELSE searches[i]]
                  ELSE Append(searches, [term |-> term, score |-> 1])
        sorted == ScoreSorted(edited)
    IN  IF Len(sorted) > MAX_ENTRIES THEN Slice0(sorted, MAX_ENTRIES) ELSE sorted

\* HotSearchService.recordSearch(term)
cacheRecord(c, term) ==
    IF Rejected(term)
    THEN c
    ELSE LET current  == cacheGet(c)
             searches == IF current.hit THEN current.value ELSE <<>>
         IN  cacheSet(c, listAfterRecord(searches, term))

\* one pass of the loop that fills the list before anything else is called
CachePopulate ==
    /\ loop.done < loop.total
    /\ LET term == TestTerm((loop.done % loop.size) + 1)
       IN  /\ call' = Call("HotSearchService.recordSearch", term, 0, "")
           /\ cache' = cacheRecord(cache, term)
    /\ ret' = [b \in Backends |-> Void]
    /\ loop' = [loop EXCEPT !.done = @ + 1]
    /\ UNCHANGED <<env, db, lastId, now, hist, evicted, steps, initFailure, kind,
                   conn, pending, disk, singleton>>

CacheRecordSearch(term) ==
    /\ loop.done = loop.total
    /\ Rejected(term) \/ steps < MaxSteps
    /\ call' = Call("HotSearchService.recordSearch", term, 0, "")
    /\ cache' = cacheRecord(cache, term)
    /\ steps' = IF Rejected(term) THEN steps ELSE steps + 1
    /\ ret' = [b \in Backends |-> Void]
    /\ UNCHANGED <<env, db, lastId, now, hist, evicted, loop, initFailure, kind,
                   conn, pending, disk, singleton>>

\* HotSearchService.getHotSearches(limit)
CacheGetHotSearches(limit) ==
    /\ loop.done = loop.total
    /\ call' = Call("HotSearchService.getHotSearches", <<>>, limit, "")
    /\ LET result == cacheGet(cache)
       IN  ret' = [b \in Backends |->
                     IF ~result.hit
                     THEN Void
                     ELSE [Void EXCEPT !.rows =
                             Slice0(result.value, Min(limit, MAX_ENTRIES))]]
    /\ UNCHANGED <<env, db, lastId, now, hist, evicted, steps, loop, initFailure,
                   kind, conn, pending, disk, singleton, cache>>

\* close(): the better-sqlite3 handle has a close method, the fallback object
\* has none and is left as it is
Close ==
    /\ UNCHANGED extras
    /\ loop.done = loop.total
    /\ call' = Call("close", <<>>, 0, "")
    /\ ret' = [b \in Backends |-> Void]
    /\ conn' = [b \in Backends |-> IF kind[b] = "sqlite" THEN "closed" ELSE conn[b]]
    /\ UNCHANGED <<env, db, lastId, now, hist, evicted, steps, loop,
                   initFailure, kind, pending>>

\* The engine starts to report errors (the file became unwritable, the table is
\* locked by another process, the disk is full): what the catch blocks are for.
QueriesFail ==
    /\ UNCHANGED extras
    /\ loop.done = loop.total
    /\ \E b \in Backends : kind[b] = "sqlite" /\ conn[b] = "open"
    /\ call' = Call("queries fail", <<>>, 0, "")
    /\ ret' = [b \in Backends |-> Void]
    /\ conn' = [b \in Backends |->
                  IF kind[b] = "sqlite" /\ conn[b] = "open" THEN "failing" ELSE conn[b]]
    /\ UNCHANGED <<env, db, lastId, now, hist, evicted, steps, loop,
                   initFailure, kind, pending>>

\* the condition that made the engine report errors is over
QueriesRecover ==
    /\ UNCHANGED extras
    /\ \E b \in Backends : conn[b] = "failing"
    /\ call' = Call("queries recover", <<>>, 0, "")
    /\ ret' = [b \in Backends |-> Void]
    /\ conn' = [b \in Backends |-> IF conn[b] = "failing" THEN "open" ELSE conn[b]]
    /\ UNCHANGED <<env, db, lastId, now, hist, evicted, steps, loop,
                   initFailure, kind, pending>>

\* recordSearch(term) up to its only await: the empty check returns at once,
\* anything else is suspended at "await this.isForbidden(term)"
RecordSearchBegin(term) ==
    /\ UNCHANGED extras
    /\ loop.done = loop.total
    /\ Len(pending.queue) < MaxPending
    /\ Rejected(term) \/ steps + Len(pending.queue) < MaxSteps
    /\ call' = Call("recordSearch.begin", term, 0, "")
    /\ ret' = [b \in Backends |-> Void]
    /\ pending' = IF EmptyTerm(term)
                  THEN pending
                  ELSE [queue |-> Append(pending.queue, term),
                        begun |-> IF isForbidden(term) THEN pending.begun
                                  ELSE [pending.begun EXCEPT ![term] = @ + 1]]
    /\ UNCHANGED <<env, db, lastId, now, hist, evicted, steps, loop,
                   initFailure, kind, conn>>

\* a suspended recordSearch call runs from its await to its end in one piece:
\* the forbidden return, Date.now(), the upsert and the capacity step
RecordSearchResume(i) ==
    /\ UNCHANGED extras
    /\ i \in 1..Len(pending.queue)
    /\ LET term == pending.queue[i]
       IN  /\ isForbidden(term) \/ steps < MaxSteps
           /\ call' = Call("recordSearch.resume", term, 0, "")
           /\ ret' = [b \in Backends |-> Void]
           /\ pending' = [pending EXCEPT !.queue =
                            SubSeq(@, 1, i - 1) \o SubSeq(@, i + 1, Len(@))]
           /\ UNCHANGED <<env, loop, initFailure, kind, conn>>
           /\ IF isForbidden(term)
              THEN UNCHANGED <<db, lastId, now, hist, evicted, steps>>
              ELSE \E d \in ClockSteps, tie \in TieOrders :
                     LET st == recordAll([db |-> db, lastId |-> lastId, hist |-> hist,
                                          evicted |-> evicted], term, now + d, tie)
                     IN  /\ now' = now + d
                         /\ db' = st.db
                         /\ lastId' = st.lastId
                         /\ hist' = st.hist
                         /\ evicted' = st.evicted
                         /\ steps' = steps + 1

\* recordSearch(term) called on one instance only, the other being left alone:
\* two instances of one process need not be sent the same calls
RecordSearchOn(b, term) ==
    /\ UNCHANGED extras
    /\ loop.done = loop.total
    /\ Rejected(term) \/ steps < MaxSteps * Cardinality(Backends)
    /\ call' = Call("recordSearch", term, 0, "")
    /\ ret' = [c \in Backends |-> Void]
    /\ UNCHANGED <<env, loop, initFailure, kind, conn, pending, hist>>
    /\ IF Rejected(term)
       THEN UNCHANGED <<db, lastId, now, evicted, steps>>
       ELSE \E d \in ClockSteps, tie \in TieOrders :
              LET st == recordAll([db |-> db, lastId |-> lastId, hist |-> hist,
                                   evicted |-> evicted], term, now + d, tie)
              IN  /\ now' = now + d
                  /\ db' = [db EXCEPT ![b] = st.db[b]]
                  /\ lastId' = IF b = "sqlite" THEN st.lastId ELSE lastId
                  /\ evicted' = [evicted EXCEPT ![b] = st.evicted[b]]
                  /\ steps' = steps + 1

Next ==
    \/ Populate
    \/ \E term \in InputTerms : RecordSearch(term)
    \/ \E limit \in Limits : GetHotSearches(limit)
    \/ GetStats
    \/ GetDatabaseSize
    \/ \E password \in Passwords : ClearHotSearches(password)
    \/ \E term \in DeleteTerms, password \in Passwords : DeleteHotSearch(term, password)

Spec == Init /\ [][Next]_vars

\* the same service when every recordSearch call reads a later clock value
\* than the one before it
NextDistinctClock ==
    \/ Populate
    \/ \E term \in InputTerms : RecordSearchAt(term, {1})
    \/ \E limit \in Limits : GetHotSearches(limit)
    \/ GetStats
    \/ \E password \in Passwords : ClearHotSearches(password)
    \/ \E term \in DeleteTerms, password \in Passwords : DeleteHotSearch(term, password)

SpecDistinctClock == Init /\ [][NextDistinctClock]_vars

\* the loop sizes of the specifications that do not need a full store
SmallSizes == {0, 2}

\* what an earlier run may have left at DB_PATH: nothing, a file of one page,
\* a database with the table in it
EarlierFiles ==
    {NoFile, [exists |-> TRUE, bytes |-> 4096], [exists |-> TRUE, bytes |-> SchemaBytes]}

\* the constructor of instance "memory" fails at its first or at its last step
InitLifecycle ==
    \E i \in {1, Len(InitSteps)}, earlier \in EarlierFiles :
        StartOn(NoEnv, 2, 1, InitSteps[i], earlier)

\* the service with close() and with an engine that can fail at run time
NextLifecycle ==
    \/ Populate
    \/ \E term \in DeleteTerms : RecordSearch(term)
    \/ GetHotSearches(MAX_ENTRIES)
    \/ GetStats
    \/ GetDatabaseSize
    \/ \E password \in Passwords : ClearHotSearches(password)
    \/ \E term \in DeleteTerms, password \in Passwords : DeleteHotSearch(term, password)
    \/ Close
    \/ QueriesFail
    \/ QueriesRecover

SpecLifecycle == InitLifecycle /\ [][NextLifecycle]_vars

InitConcurrent ==
    \E n \in SmallSizes, rounds \in 1..MaxRounds : Start(NoEnv, n, rounds, "require")

ConcurrentTerms == {OldTerm, FreshTerm, <<>>, <<"S", "h", "I", "t">>}

\* recordSearch calls overlapping at their await, readers in between
NextConcurrent ==
    \/ Populate
    \/ \E term \in ConcurrentTerms : RecordSearchBegin(term)
    \/ \E i \in 1..MaxPending : RecordSearchResume(i)
    \/ GetStats

SpecConcurrent == InitConcurrent /\ [][NextConcurrent]_vars

\* the process before the first call of getOrCreateHotSearchSQLiteService
InitSingleton ==
    /\ Unbuilt(NoEnv, 0, 1, "require")
    /\ kind = [b \in Backends |-> "none"]
    /\ conn = [b \in Backends |-> "none"]
    /\ disk = [b \in Backends |-> NoFile]
    /\ singleton = NotConstructed

\* the callers that reach the service through the accessor
NextSingleton ==
    \/ GetOrCreate
    \/ singleton.set /\ \E term \in DeleteTerms : RecordSearch(term)
    \/ singleton.set /\ GetStats
    \/ singleton.set /\ Close

SpecSingleton == InitSingleton /\ [][NextSingleton]_vars

\* a store of two records, or a full one
InitCleanupThrows == \E n \in {2, MAX_ENTRIES} : Start(NoEnv, n, 1, "require")

\* recordSearch calls whose cleanup succeeds or throws
NextCleanupThrows ==
    \/ Populate
    \/ \E term \in DeleteTerms : RecordSearch(term)
    \/ \E term \in DeleteTerms : RecordSearchCleanupThrows(term)
    \/ GetStats

SpecCleanupThrows == InitCleanupThrows /\ [][NextCleanupThrows]_vars

\* the cache-backed service before a loop of 2 or of 50 terms, run once or twice
InitCache ==
    \E n \in {2, MAX_ENTRIES}, rounds \in 1..MaxRounds : Start(NoEnv, n, rounds, "require")

NextCache ==
    \/ CachePopulate
    \/ \E term \in InputTerms : CacheRecordSearch(term)
    \/ \E limit \in Limits : CacheGetHotSearches(limit)

SpecCache == InitCache /\ [][NextCache]_vars

InitIndependent == Start(NoEnv, 0, 1, "require")

\* the two instances are sent their recordSearch calls independently
NextIndependent ==
    \/ \E b \in Backends, term \in DeleteTerms : RecordSearchOn(b, term)
    \/ \E limit \in Limits : GetHotSearches(limit)

SpecIndependent == InitIndependent /\ [][NextIndependent]_vars

\* the loop of the capacity test: 60 terms, each recorded once
ScenarioTerms == 60

InitScenario == Start(NoEnv, ScenarioTerms, 1, "require")

SpecScenario == InitScenario /\ [][Next]_vars

-----------------------------------------------------------------------------
(* What the claims are stated with *)

\* a ranks strictly above b: higher score, or equal score and searched later
RankAbove(a, b) ==
    \/ a.score > b.score
    \/ a.score = b.score /\ a.lastSearched > b.lastSearched

\* the administrative password in force
AdminPassword == IF env \in {NoEnv, ""} THEN DefaultPassword ELSE env

Folded(term) == [i \in 1..Len(term) |-> Canonicalize(term[i])]

\* term contains a forbidden pattern, in any letter case, anywhere
HasForbidden(term) ==
    \E pat \in ForbiddenPatterns :
        \E off \in 0..(Len(term) - Len(pat)) :
            SubSeq(Folded(term), off + 1, off + Len(pat)) = pat

\* term is empty or made of whitespace only
IsBlank(term) == \A i \in 1..Len(term) : term[i] \in WhiteSpace

RowTerms(rows) == {rows[i].term : i \in 1..Len(rows)}

RowSet(rows) == {rows[i] : i \in 1..Len(rows)}

\* the records an accepted recordSearch(term) at clock reading t makes of the
\* set before: the record of term counted once more, or a new one, all others
\* as they were
Upserted(before, term, t) ==
    LET old == {r \in before : r.term = term}
    IN  (before \ old) \cup
        (IF old = {}
         THEN {[term |-> term, score |-> 1, lastSearched |-> t, createdAt |-> t]}
         ELSE {[r EXCEPT !.score = @ + 1, !.lastSearched = t] : r \in old})

\* the step is a recordSearch call that was accepted
AcceptedRecord == call'.op = "recordSearch" /\ ~IsBlank(call'.term) /\ ~HasForbidden(call'.term)

-----------------------------------------------------------------------------
(* Claims *)

\* C1: after any recordSearch call, on either backend, the number of stored
\* records, which is what getStats().total reports, is at most 50.
C1_StoreSizeAtMostMax ==
    \A b \in Backends :
        /\ Len(db[b]) <= MAX_ENTRIES
        /\ call.op = "getStats" => ret[b].total <= MAX_ENTRIES

\* C2 as stated: after N >= 1 accepted recordSearch(t) calls with no admin delete
\* or clear in between, t is stored with score N, createdAt the time of the first
\* call and lastSearched the time of the last.
C2_ScoreCountsCalls ==
    \A b \in Backends : \A t \in InputTerms :
        hist[t].n >= 1 =>
            \E r \in Records(b, db[b]) :
                /\ r.term = t
                /\ r.score = hist[t].n
                /\ r.createdAt = hist[t].first
                /\ r.lastSearched = hist[t].last

\* C2 amended: the same, as long as the capacity step has not dropped t since
\* the first of those calls.
C2_ScoreCountsCallsUnlessEvicted ==
    \A b \in Backends : \A t \in InputTerms :
        (hist[t].n >= 1 /\ t \notin evicted[b]) =>
            \E r \in Records(b, db[b]) :
                /\ r.term = t
                /\ r.score = hist[t].n
                /\ r.createdAt = hist[t].first
                /\ r.lastSearched = hist[t].last

\* a term recorded three times or more, at different times, other terms recorded
\* in between, in a store on the SQLite backend that is full
C2_Witness ==
    /\ hist[OldTerm].n >= 3
    /\ hist[OldTerm].first < hist[OldTerm].last
    /\ OldTerm \notin evicted["sqlite"]
    /\ Len(db["sqlite"]) = MAX_ENTRIES

\* C3: getHotSearches(limit) returns records in non-increasing score order, and
\* of two returned records with equal score the one searched later comes first.
C3_ResultIsRanked ==
    call.op = "getHotSearches" =>
        \A b \in Backends :
            \A i, j \in 1..Len(ret[b].rows) :
                i < j =>
                    /\ ret[b].rows[i].score >= ret[b].rows[j].score
                    /\ ret[b].rows[i].score = ret[b].rows[j].score
                         => ret[b].rows[i].lastSearched >= ret[b].rows[j].lastSearched

\* a result in which both keys decide: two scores, and two records of one score
\* searched at different times
C3_Witness ==
    /\ call.op = "getHotSearches"
    /\ \A b \in Backends :
          /\ \E i, j \in 1..Len(ret[b].rows) :
                ret[b].rows[i].score > ret[b].rows[j].score
          /\ \E i, j \in 1..Len(ret[b].rows) :
                /\ ret[b].rows[i].score = ret[b].rows[j].score
                /\ ret[b].rows[i].lastSearched > ret[b].rows[j].lastSearched

\* C4: the SQLite instance and the in-memory instance, started empty and given
\* the same recordSearch calls at the same clock readings, return the same
\* getHotSearches output (here: for every limit that is not negative).
C4_BackendsAgree ==
    (call.op = "getHotSearches" /\ call.limit >= 0) =>
        ret["sqlite"].rows = ret["memory"].rows

\* C5: deleteHotSearch and clearHotSearches with a password other than the
\* administrative one return success:false with the wrong-password message and
\* leave the store as it was.
C5_WrongPasswordChangesNothing ==
    [][ (/\ call'.op \in {"deleteHotSearch", "clearHotSearches"}
         /\ call'.password # AdminPassword)
        => /\ db' = db
           /\ \A b \in Backends :
                 /\ ret'[b].success = FALSE
                 /\ ret'[b].message = "wrong password" ]_vars

\* a delete, with a wrong password, of a term that is stored in a full store
C5_Witness ==
    /\ call.op = "deleteHotSearch"
    /\ call.password # AdminPassword
    /\ \A b \in Backends :
          /\ call.term \in Terms(db[b])
          /\ Len(db[b]) >= MAX_ENTRIES
          /\ ret[b].message = "wrong password"

\* C6: recordSearch of a term that contains a forbidden pattern, in any letter
\* case and anywhere in the term, leaves the store unchanged; and no stored term
\* and no term getHotSearches returns contains a forbidden pattern.
C6_ForbiddenNeverStored ==
    /\ [](\A b \in Backends :
             /\ \A t \in Terms(db[b]) : ~HasForbidden(t)
             /\ call.op = "getHotSearches"
                  => \A t \in RowTerms(ret[b].rows) : ~HasForbidden(t))
    /\ [][ (call'.op = "recordSearch" /\ HasForbidden(call'.term))
           => db' = db ]_vars

\* a term with a pattern in mixed case after an accepted prefix was just refused
C6_Witness ==
    /\ call.op = "recordSearch"
    /\ call.term = OldTerm \o <<"F", "u", "C", "k">>
    /\ \A b \in Backends : OldTerm \in Terms(db[b])

\* C7: recordSearch of the empty string or of a string of whitespace only
\* changes nothing: the stored records, their scores and timestamps stay, and
\* nothing is evicted.
C7_BlankIsNoOp ==
    [][ (call'.op = "recordSearch" /\ IsBlank(call'.term))
        => /\ db' = db
           /\ evicted' = evicted ]_vars

\* a whitespace-only term was just passed to a store that is full
C7_Witness ==
    /\ call.op = "recordSearch"
    /\ call.term = <<" ", "\t", " ">>
    /\ \A b \in Backends : Len(db[b]) >= MAX_ENTRIES

\* C8: for limit >= 0, getHotSearches(limit) returns exactly the first
\* min(limit, 50, store size) records of the ranking order: that many records,
\* all of them stored, none twice, in ranking order, and no record left out
\* ranks above a record returned.
C8_FirstOfRanking ==
    (call.op = "getHotSearches" /\ call.limit >= 0) =>
        \A b \in Backends :
            LET rows == ret[b].rows
            IN  /\ Len(rows) = Min(call.limit, Min(MAX_ENTRIES, Len(db[b])))
                /\ RowSet(rows) \subseteq Records(b, db[b])
                /\ Cardinality(RowSet(rows)) = Len(rows)
                /\ \A i, j \in 1..Len(rows) : i < j => ~RankAbove(rows[j], rows[i])
                /\ \A r \in Records(b, db[b]) \ RowSet(rows) :
                      \A i \in 1..Len(rows) : ~RankAbove(r, rows[i])

\* a limit above 50 on a store that holds more than 50 records
C8_Witness ==
    /\ call.op = "getHotSearches"
    /\ call.limit > MAX_ENTRIES
    /\ Len(db["memory"]) > MAX_ENTRIES
    /\ Len(ret["memory"].rows) = MAX_ENTRIES
    /\ Len(ret["sqlite"].rows) = MAX_ENTRIES

\* C9: after clearHotSearches with the correct password returned success the
\* store is empty: getStats().total is 0 and getHotSearches(50) is empty.
C9_ClearEmpties ==
    call.op = "clearHotSearches" =>
        \A b \in Backends :
            ret[b].success =>
                \A tie \in TieOrders :
                    /\ statsOf(b, db[b], tie).total = 0
                    /\ statsOf(b, db[b], tie).topTerms = <<>>
                    /\ selectTop(b, db[b], MAX_ENTRIES, tie) = <<>>

\* a successful clear as the first call after the store was filled to capacity
C9_Witness ==
    /\ call.op = "clearHotSearches"
    /\ \A b \in Backends : ret[b].success
    /\ loop.size = MAX_ENTRIES
    /\ steps = 1

\* C10: deleteHotSearch(term, correct password) of a stored term returns
\* success:true and removes that record and no other: the term is absent from
\* getHotSearches(50) and every other record is stored as before.
C10_DeleteRemovesOnlyTheTerm ==
    [][ (/\ call'.op = "deleteHotSearch"
         /\ call'.password = AdminPassword)
        => \A b \in Backends :
              call'.term \in Terms(db[b]) =>
                 /\ ret'[b].success
                 /\ Records(b, db'[b]) =
                       {r \in Records(b, db[b]) : r.term # call'.term}
                 /\ \A tie \in TieOrders :
                       call'.term \notin
                          RowTerms(selectTop(b, db'[b], MAX_ENTRIES, tie)) ]_vars

\* a stored term was just deleted from a full store and the others are there
C10_Witness ==
    /\ call.op = "deleteHotSearch"
    /\ \A b \in Backends :
          /\ ret[b].success
          /\ call.term \notin Terms(db[b])
          /\ Len(db[b]) = MAX_ENTRIES - 1

\* C11: deleteHotSearch(term, correct password) of a term that is not stored
\* returns success:false with the term-not-found message and leaves the store
\* as it was, on both backends.
C11_DeleteOfMissingTerm ==
    [][ (/\ call'.op = "deleteHotSearch"
         /\ call'.password = AdminPassword)
        => \A b \in Backends :
              (call'.term \notin Terms(db[b]) /\ conn[b] = "open") =>
                 /\ ~ret'[b].success
                 /\ ret'[b].message = "term not found"
                 /\ db'[b] = db[b] ]_vars

\* the delete of a term that neither non-empty store holds was just refused
C11_Witness ==
    /\ call.op = "deleteHotSearch"
    /\ call.password = AdminPassword
    /\ \A b \in Backends :
          /\ ret[b].message = "term not found"
          /\ call.term \notin Terms(db[b])
          /\ Len(db[b]) >= 2

\* C12: getStats() returns total equal to the number of stored records and
\* topTerms equal to the first 10 records of the ranking order, never more than
\* 10 entries, on both backends.
C12_StatsShowTopTen ==
    call.op = "getStats" =>
        \A b \in Backends :
            conn[b] = "open" =>
               /\ ret[b].total = Len(db[b])
               /\ Len(ret[b].rows) = Min(StatsLimit, Len(db[b]))
               /\ RowSet(ret[b].rows) \subseteq Records(b, db[b])
               /\ \A i, j \in 1..Len(ret[b].rows) :
                      i < j => ~RankAbove(ret[b].rows[j], ret[b].rows[i])
               /\ \A r \in Records(b, db[b]) \ RowSet(ret[b].rows) :
                      \A i \in 1..Len(ret[b].rows) : ~RankAbove(r, ret[b].rows[i])

\* C13: starting from an empty store, after 60 distinct accepted terms were each
\* recorded once in sequence, getStats().total is 50 and the 10 terms recorded
\* first are the ones absent from the store, on either backend.
C13_SixtyTermsLeaveFifty ==
    (/\ call.op = "getStats"
     /\ loop.size = ScenarioTerms
     /\ loop.done = ScenarioTerms
     /\ steps = 0)
    => \A b \in Backends :
          /\ ret[b].total = MAX_ENTRIES
          /\ \A i \in 1..ScenarioTerms :
                 TestTerm(i) \in Terms(db[b]) <=> i > ScenarioTerms - MAX_ENTRIES

\* C14: the backend of an instance is chosen during construction and never
\* afterwards: it is the SQLite engine if no initialization step failed and the
\* in-memory fallback otherwise, and no call, no close() and no run-time query
\* failure changes it or runs the initialization again.
C14_BackendChosenOnce ==
    /\ [](\A b \in Backends :
             /\ kind[b] \in {"sqlite", "memory"}
             /\ kind[b] = "sqlite" <=> initFailure[b] = "none")
    /\ [][kind' = kind /\ initFailure' = initFailure]_vars

\* a record was stored after the engine had failed and recovered, on an
\* instance of each kind, one of them fallen back at the last step
C14_Witness ==
    /\ initFailure["memory"] = "exec"
    /\ kind["memory"] = "memory"
    /\ kind["sqlite"] = "sqlite"
    /\ call.op = "queries recover"
    /\ steps >= 1

\* C15: while the SQLite engine's queries fail (after close() included) every
\* call still answers: recordSearch returns and leaves the store as it was,
\* getHotSearches returns the empty sequence, getStats returns total 0 and no
\* top terms, clearHotSearches and deleteHotSearch with the correct password
\* return success:false with their failure message and change nothing.
C15_FailuresAreAnswered ==
    [][ \A b \in Backends :
          (kind[b] = "sqlite" /\ conn[b] # "open" /\ conn'[b] = conn[b]) =>
             /\ call'.op = "recordSearch" =>
                   db'[b] = db[b] /\ ret'[b] = Void
             /\ call'.op = "getHotSearches" =>
                   db'[b] = db[b] /\ ret'[b].rows = <<>>
             /\ call'.op = "getStats" =>
                   db'[b] = db[b] /\ ret'[b].total = 0 /\ ret'[b].rows = <<>>
             /\ (call'.op = "clearHotSearches" /\ call'.password = AdminPassword) =>
                   /\ db'[b] = db[b]
                   /\ ~ret'[b].success
                   /\ ret'[b].message = "clear failed"
             /\ (call'.op = "deleteHotSearch" /\ call'.password = AdminPassword) =>
                   /\ db'[b] = db[b]
                   /\ ~ret'[b].success
                   /\ ret'[b].message = "delete failed" ]_vars

\* after close() a clear with the correct password failed on the SQLite
\* instance, whose records are still there, and succeeded on the fallback
C15_Witness ==
    /\ call.op = "clearHotSearches"
    /\ conn["sqlite"] = "closed"
    /\ ret["sqlite"].message = "clear failed"
    /\ db["sqlite"] # <<>>
    /\ ret["memory"].success

\* C16: recordSearch calls for the same accepted term that overlap at their
\* await lose no increment: as long as the term is not removed, its score is
\* its score before the calls plus the number of those calls that have run to
\* their end, so plus k once all k have; on either backend.
C16_NoLostIncrement ==
    loop.done = loop.total =>
        \A b \in Backends : \A t \in InputTerms :
            (~IsBlank(t) /\ ~HasForbidden(t) /\ t \notin evicted[b]) =>
               LET before   == IF \E i \in 1..loop.size : TestTerm(i) = t
                               THEN loop.total \div loop.size ELSE 0
                   inFlight == Cardinality({i \in 1..Len(pending.queue) :
                                               pending.queue[i] = t})
                   stored   == {r \in Records(b, db[b]) : r.term = t}
                   score    == IF stored = {} THEN 0
                               ELSE (CHOOSE r \in stored : TRUE).score
               IN  /\ Cardinality(stored) <= 1
                   /\ score = before + pending.begun[t] - inFlight

\* of two calls for a stored term that were suspended together one has run to
\* its end and the other has not
C16_Witness ==
    /\ call.op = "recordSearch.resume"
    /\ call.term = OldTerm
    /\ pending.queue = <<OldTerm>>
    /\ pending.begun[OldTerm] = 2
    /\ loop.size = 2

\* C17: the record key is the trimmed term: no stored term begins or ends with
\* whitespace, and a term recorded with and without surrounding whitespace is
\* one record, so no two stored terms are equal after trimming.
C17_KeyIsTrimmed ==
    \A b \in Backends :
        /\ \A t \in Terms(db[b]) :
               t # <<>> => t[1] \notin WhiteSpace /\ t[Len(t)] \notin WhiteSpace
        /\ \A t, u \in Terms(db[b]) : Trim(t) = Trim(u) => t = u

\* C18: the order in which getHotSearches returns records that tie on score and
\* lastSearched is determined by the stored records alone: an SQLite instance
\* and an in-memory instance that hold the same records return the same
\* sequence.
C18_TieOrderIsDetermined ==
    (/\ call.op = "getHotSearches"
     /\ call.limit >= 0
     /\ Records("sqlite", db["sqlite"]) = Records("memory", db["memory"]))
    => ret["sqlite"].rows = ret["memory"].rows

\* C19: for every negative limit getHotSearches returns the empty sequence, on
\* both backends and in every store state.
C19_NegativeLimitIsEmpty ==
    (call.op = "getHotSearches" /\ call.limit < 0) =>
        \A b \in Backends : conn[b] = "open" => ret[b].rows = <<>>

\* C20 as stated: clearHotSearches and deleteHotSearch accept a password only
\* if it equals the value of HOT_SEARCH_PASSWORD, the empty string included,
\* and 'admin123' only if no value is configured or that value is 'admin123'.
C20_EqualsConfiguredValue ==
    [][ call'.op \in {"clearHotSearches", "deleteHotSearch"} =>
          \A b \in Backends :
             ret'[b].message # "wrong password" =>
                call'.password = (IF env = NoEnv THEN DefaultPassword ELSE env) ]_vars

\* C20: clearHotSearches and deleteHotSearch accept a password exactly when
\* it equals the password in force, which is the value of HOT_SEARCH_PASSWORD
\* when that is set and not empty, and 'admin123' when it is unset or empty.
C20_EqualsPasswordInForce ==
    [][ call'.op \in {"clearHotSearches", "deleteHotSearch"} =>
          \A b \in Backends :
             ret'[b].message # "wrong password" <=> call'.password = AdminPassword ]_vars

\* with HOT_SEARCH_PASSWORD set to the empty string a clear with 'admin123'
\* went through
C20_Witness ==
    /\ env = ""
    /\ call.op = "clearHotSearches"
    /\ call.password = DefaultPassword
    /\ \A b \in Backends : ret[b].success

\* C21: getDatabaseSize() returns 0 whenever the instance runs on the
\* in-memory fallback, also when a database file is on disk from an earlier
\* run or from an initialization that failed part-way.
C21_FallbackHasNoSize ==
    call.op = "getDatabaseSize" =>
        \A b \in Backends : kind[b] = "memory" => ret[b].size = 0

\* C22: getOrCreateHotSearchSQLiteService constructs the service at most once:
\* the first call constructs it, every later call returns that instance as it
\* is, and a call made after close() neither constructs a new instance nor
\* initializes a backend again.
C22_ConstructedOnce ==
    /\ [](singleton.built <= 1)
    /\ [][singleton.set => singleton' = singleton]_vars
    /\ [][call'.op = "getOrCreate" =>
            IF singleton.set
            THEN kind' = kind /\ conn' = conn /\ db' = db /\ disk' = disk
            ELSE singleton'.set /\ singleton'.built = 1]_vars

\* the accessor was called after close() on an instance that holds records
C22_Witness ==
    /\ call.op = "getOrCreate"
    /\ singleton.built = 1
    /\ conn["sqlite"] = "closed"
    /\ db["sqlite"] # <<>>
    /\ db["memory"] # <<>>

\* C23: on the SQLite backend the capacity step at the end of recordSearch keeps
\* 50 highest-ranked records of the store as it stands right after the upsert
\* and deletes all others at once; it deletes nothing when that store holds 50
\* records or fewer, and no record it deletes ranks strictly above one it keeps.
C23_KeepsTheTopFifty ==
    [][AcceptedRecord =>
        LET upserted == Upserted(Records("sqlite", db["sqlite"]), call'.term, now')
            kept     == Records("sqlite", db'["sqlite"])
        IN  /\ kept \subseteq upserted
            /\ Cardinality(kept) = Min(MAX_ENTRIES, Cardinality(upserted))
            /\ \A gone \in upserted \ kept : \A r \in kept : ~RankAbove(gone, r)]_vars

\* a recordSearch of a new term into a full SQLite store, whose capacity step
\* deleted a record ranking lowest and kept the new one
C23_Witness ==
    /\ call.op = "recordSearch"
    /\ call.term = FreshTerm
    /\ Len(db["sqlite"]) = MAX_ENTRIES
    /\ FreshTerm \in Terms(db["sqlite"])
    /\ OldTerm \in evicted["sqlite"]

\* C24: in every reachable state every stored record has score >= 1 and
\* createdAt <= lastSearched, and no two stored records have the same term
\* (the clock readings of successive recordSearch calls never decrease).
C24_RecordsAreWellFormed ==
    \A b \in Backends :
        /\ \A r \in Records(b, db[b]) : r.score >= 1 /\ r.createdAt <= r.lastSearched
        /\ \A i, j \in 1..Len(db[b]) : db[b][i].term = db[b][j].term => i = j

\* both stores are full and a term recorded before was recorded again later
C24_Witness ==
    /\ call.op = "recordSearch"
    /\ call.term = OldTerm
    /\ steps >= 1
    /\ \A b \in Backends :
          /\ Len(db[b]) >= MAX_ENTRIES
          /\ \E r \in Records(b, db[b]) :
                r.term = OldTerm /\ r.score >= 2 /\ r.createdAt < r.lastSearched

\* C25: if the capacity-cleanup step fails during recordSearch the failure is
\* swallowed: recordSearch returns as usual and the upsert it had just made (the
\* new record with score 1, or the +1 with the refreshed lastSearched) stays.
\* The cleanup of the fallback fails in every call.
C25_UpsertSurvivesCleanupFailure ==
    [][ /\ call'.op = "recordSearch, cleanup throws" =>
             \A b \in Backends :
                 /\ ret'[b] = Void
                 /\ Records(b, db'[b]) = Upserted(Records(b, db[b]), call'.term, now')
        /\ AcceptedRecord =>
             /\ ret'["memory"] = Void
             /\ Records("memory", db'["memory"]) =
                    Upserted(Records("memory", db["memory"]), call'.term, now') ]_vars

\* the cleanup threw on a full SQLite store after a new term was inserted: the
\* new record is there, beside the 50 the store held
C25_Witness ==
    /\ call.op = "recordSearch, cleanup throws"
    /\ call.term = FreshTerm
    /\ Len(db["sqlite"]) = MAX_ENTRIES + 1
    /\ \E r \in Records("sqlite", db["sqlite"]) : r.term = FreshTerm /\ r.score = 1
    /\ \E r \in Records("memory", db["memory"]) : r.term = FreshTerm /\ r.score = 1

\* C26: an accepted recordSearch(t) changes no field of any other record that
\* stays in the store: a term u other than t stored before and after the call
\* has the same score, lastSearched and createdAt; other records can only be
\* removed by the capacity step. In any call, the score of a term that stays
\* stored changes only by +1 and only in an accepted recordSearch of that term.
C26_OtherRecordsUntouched ==
    [][\A b \in Backends :
         LET before == Records(b, db[b])
             after  == Records(b, db'[b])
         IN  \* a record that is not as it was before is the record of t, and
             \* if its term was stored its score went up by one
             \A q \in after \ before :
                /\ AcceptedRecord => q.term = call'.term
                /\ \A r \in before :
                      (r.term = q.term /\ r.score # q.score) =>
                         /\ q.score = r.score + 1
                         /\ AcceptedRecord
                         /\ call'.term = r.term]_vars

\* a term recorded again in full stores that hold other records with a score
\* above 1, which all stay
C26_Witness ==
    /\ call.op = "recordSearch"
    /\ call.term = OldTerm
    /\ steps >= 1
    /\ \A b \in Backends :
          /\ Len(db[b]) >= MAX_ENTRIES
          /\ \E r \in Records(b, db[b]) : r.term = OldTerm /\ r.score >= 3
          /\ \E r \in Records(b, db[b]) :
                r.term = TestTerm(MAX_ENTRIES) /\ r.score = 2 /\ r.lastSearched < now

\* C27: admission is never blocked for good by the capacity rule: from every
\* reachable store, recording an accepted term t that is not stored again and
\* again, at strictly later clock readings and with no other call in between,
\* at last makes t appear in getHotSearches(50). What a finite run can show of
\* it: no such recordSearch(t) leaves a store without t and with exactly the
\* records it had, because every record it kept then outranks a new record at
\* any later reading too, and each repetition of the call ends the same way.
C27_RecordingMakesProgress ==
    [][(AcceptedRecord /\ now' > now) =>
         \A b \in Backends :
            call'.term \notin RowTerms(db[b]) =>
               \/ call'.term \in RowTerms(db'[b])
               \/ Records(b, db'[b]) # Records(b, db[b])]_vars

\* C28: getHotSearches, getStats and getDatabaseSize are read-only: for every
\* argument and every store, the stored records and all their fields are after
\* the call what they were before it, on both backends.
C28_ReadsChangeNothing ==
    [][call'.op \in {"getHotSearches", "getStats", "getDatabaseSize"} =>
         \A b \in Backends :
            /\ Records(b, db'[b]) = Records(b, db[b])
            /\ Len(db'[b]) = Len(db[b])]_vars

\* getHotSearches(2) answered two rows from full stores
C28_Witness ==
    /\ call.op = "getHotSearches"
    /\ call.limit = 2
    /\ \A b \in Backends : Len(ret[b].rows) = 2 /\ Len(db[b]) >= MAX_ENTRIES

\* C29: in the cache-backed HotSearchService, after any sequence of recordSearch
\* calls, the cache entry not expired, the stored list has no two entries with
\* the same term, is sorted by score in non-increasing order and holds at most
\* 50 entries, and the term of the last accepted recordSearch is in it.
C29_ListHoldsTheLastTerm ==
    /\ [](LET list == cache.value
          IN  /\ Len(list) <= MAX_ENTRIES
              /\ \A i, j \in 1..Len(list) :
                    /\ list[i].term = list[j].term => i = j
                    /\ i < j => list[i].score >= list[j].score)
    /\ [][(call'.op = "HotSearchService.recordSearch"
            /\ ~IsBlank(call'.term) /\ ~HasForbidden(call'.term)) =>
              call'.term \in RowTerms(cache'.value)]_vars

====
